---- MODULE Spec2Model ----
(***************************************************************************)
(* Model of data_normaliser.py: the per-source row converters (ABCConverter *)
(* and CoverallConverter), the Transaction record, the TransactionsCSVWriter*)
(* and the orchestrator convert_raw_csv_to_transaction / convert.           *)
(*                                                                         *)
(* Python values are records tagged by their type:                         *)
(*   None            [t |-> "None"]                                        *)
(*   str             [t |-> "str",   s |-> <<characters>>]                 *)
(*   int             [t |-> "int",   n |-> integer]                        *)
(*   float           [t |-> "float", m |-> mantissa, e |-> decimals]       *)
(*   datetime        [t |-> "date",  y |-> , mo |-> , d |-> ]              *)
(* A row is a dict: a function whose DOMAIN is the set of its keys.        *)
(* A call either returns a value, [ok |-> TRUE, v |-> value], or raises,   *)
(* [ok |-> FALSE, exc |-> exception class, arg |-> message argument].      *)
(***************************************************************************)
EXTENDS Integers, Sequences, FiniteSets, TLC

\* ------------------------------------------------------------------ bounds
\* At most this many columns of a base row are replaced in a row under test.
MaxPerturbed == 1
\* Data rows of an input file.
MaxRows == 3
\* Length of a transactions list given directly to create_csv.
MaxTx == 3

\* ------------------------------------------------------------------ values
NoneV == [t |-> "None"]
S(chars) == [t |-> "str", s |-> chars]
I(n) == [t |-> "int", n |-> n]
F(m, e) == [t |-> "float", m |-> m, e |-> e]
D(y, mo, d) == [t |-> "date", y |-> y, mo |-> mo, d |-> d]

Ok(v) == [ok |-> TRUE, v |-> v]
Raise(exc, arg) == [ok |-> FALSE, exc |-> exc, arg |-> arg]

\* Python truthiness of the values a row can hold.
Truthy(v) ==
    CASE v.t = "None" -> FALSE
      [] v.t = "str" -> Len(v.s) > 0
      [] v.t = "int" -> v.n # 0
      [] OTHER -> TRUE

\* ------------------------------------------------------------------ text
DigitChars == <<"0", "1", "2", "3", "4", "5", "6", "7", "8", "9">>
IsDigit(c) == \E k \in 1..10 : DigitChars[k] = c
DigitVal(c) == (CHOOSE k \in 1..10 : DigitChars[k] = c) - 1
AllDigits(cs) == \A k \in 1..Len(cs) : IsDigit(cs[k])

RECURSIVE DigitsVal(_)
DigitsVal(cs) ==
    IF Len(cs) = 0 THEN 0
    ELSE 10 * DigitsVal(SubSeq(cs, 1, Len(cs) - 1)) + DigitVal(cs[Len(cs)])

RECURSIVE NatText(_)
NatText(n) ==
    IF n < 10 THEN <<DigitChars[n + 1]>>
    ELSE NatText(n \div 10) \o <<DigitChars[(n % 10) + 1]>>

\* str(int)
IntText(n) == IF n < 0 THEN <<"-">> \o NatText(0 - n) ELSE NatText(n)

RECURSIVE ZeroPad(_, _)
ZeroPad(cs, width) == IF Len(cs) >= width THEN cs ELSE ZeroPad(<<"0">> \o cs, width)

RECURSIVE Pow10(_)
Pow10(e) == IF e = 0 THEN 1 ELSE 10 * Pow10(e - 1)

IsSpace(c) == c = " "

\* str.strip(): int() and float() ignore surrounding whitespace.
RECURSIVE Strip(_)
Strip(cs) ==
    IF Len(cs) = 0 THEN cs
    ELSE IF IsSpace(cs[1]) THEN Strip(Tail(cs))
    ELSE IF IsSpace(cs[Len(cs)]) THEN Strip(SubSeq(cs, 1, Len(cs) - 1))
    ELSE cs

\* str.split(sep)
RECURSIVE Split(_, _)
Split(cs, sep) ==
    IF \A k \in 1..Len(cs) : cs[k] # sep THEN <<cs>>
    ELSE LET k == CHOOSE j \in 1..Len(cs) :
                      cs[j] = sep /\ \A h \in 1..(j - 1) : cs[h] # sep
         IN <<SubSeq(cs, 1, k - 1)>> \o Split(SubSeq(cs, k + 1, Len(cs)), sep)

\* sep.join(parts)
RECURSIVE Join(_, _)
Join(parts, sep) ==
    IF Len(parts) = 0 THEN <<>>
    ELSE IF Len(parts) = 1 THEN parts[1]
    ELSE parts[1] \o <<sep>> \o Join(Tail(parts), sep)

UpperChars ==
    <<"A", "B", "C", "D", "E", "F", "G", "H", "I", "J", "K", "L", "M",
     "N", "O", "P", "Q", "R", "S", "T", "U", "V", "W", "X", "Y", "Z">>
LowerChars ==
    <<"a", "b", "c", "d", "e", "f", "g", "h", "i", "j", "k", "l", "m",
     "n", "o", "p", "q", "r", "s", "t", "u", "v", "w", "x", "y", "z">>
\* str.lower()
LowerChar(c) ==
    IF \E k \in 1..Len(UpperChars) : UpperChars[k] = c
    THEN LowerChars[CHOOSE k \in 1..Len(UpperChars) : UpperChars[k] = c]
    ELSE c
Lower(cs) == [k \in 1..Len(cs) |-> LowerChar(cs[k])]

\* ------------------------------------------------------------------ int(), float()
\* int(x): an int is returned as is; a str is stripped, then an optional sign
\* and one or more decimal digits; None raises TypeError.  (The rows of this
\* model hold ASCII text only: digit-group underscores, non-ASCII digits and,
\* for float(), exponents, 'inf' and 'nan' do not occur in them.)
py_int(v) ==
    CASE v.t = "int" -> Ok(v)
      [] v.t = "str" ->
            LET cs == Strip(v.s)
                signed == Len(cs) > 0 /\ cs[1] \in {"+", "-"}
                body == IF signed THEN Tail(cs) ELSE cs
            IN IF Len(body) > 0 /\ AllDigits(body)
               THEN Ok(I(IF signed /\ cs[1] = "-" THEN 0 - DigitsVal(body)
                         ELSE DigitsVal(body)))
               ELSE Raise("ValueError", "invalid literal for int()")
      [] OTHER -> Raise("TypeError", "int() argument")

\* The float with mantissa m and e decimals, trailing zero decimals dropped
\* (10.50 and 10.5 are the same float).
RECURSIVE Normalise(_, _)
Normalise(m, e) ==
    IF e > 0 /\ m % 10 = 0 THEN Normalise(m \div 10, e - 1) ELSE F(m, e)

\* float(x): an int converts; a str is stripped, then an optional sign and a
\* decimal numeral with at least one digit ("10", "10.5", ".5", "5.");
\* None raises TypeError.
py_float(v) ==
    CASE v.t = "int" -> Ok(F(v.n, 0))
      [] v.t = "float" -> Ok(v)
      [] v.t = "str" ->
            LET cs == Strip(v.s)
                signed == Len(cs) > 0 /\ cs[1] \in {"+", "-"}
                body == IF signed THEN Tail(cs) ELSE cs
                parts == Split(body, ".")
                ip == parts[1]
                fp == IF Len(parts) = 2 THEN parts[2] ELSE <<>>
                mag == DigitsVal(ip \o fp)
            IN IF Len(parts) <= 2 /\ AllDigits(ip) /\ AllDigits(fp)
                  /\ Len(ip) + Len(fp) > 0
               THEN Ok(Normalise(IF signed /\ cs[1] = "-" THEN 0 - mag ELSE mag,
                                 Len(fp)))
               ELSE Raise("ValueError", "could not convert string to float")
      [] OTHER -> Raise("TypeError", "float() argument")

\* repr(float), which csv's writer uses for a float field.
FloatText(f) ==
    LET mag == IF f.m < 0 THEN 0 - f.m ELSE f.m
        ip == NatText(mag \div Pow10(f.e))
        fp == IF f.e = 0 THEN <<"0">> ELSE ZeroPad(NatText(mag % Pow10(f.e)), f.e)
    IN (IF f.m < 0 THEN <<"-">> ELSE <<>>) \o ip \o <<".">> \o fp

\* ------------------------------------------------------------------ datetime
MonthAbbr ==
    << <<"J", "a", "n">>, <<"F", "e", "b">>, <<"M", "a", "r">>, <<"A", "p", "r">>,
       <<"M", "a", "y">>, <<"J", "u", "n">>, <<"J", "u", "l">>, <<"A", "u", "g">>,
       <<"S", "e", "p">>, <<"O", "c", "t">>, <<"N", "o", "v">>, <<"D", "e", "c">> >>

IsLeap(y) == (y % 4 = 0 /\ y % 100 # 0) \/ y % 400 = 0
DaysInMonth(y, mo) ==
    IF mo = 2 THEN (IF IsLeap(y) THEN 29 ELSE 28)
    ELSE IF mo \in {4, 6, 9, 11} THEN 30 ELSE 31

\* The two formats the program uses, as (separator, directives).
FormatParts(date_format) ==
    IF date_format = "%d/%m/%Y" THEN [sep |-> "/", dirs |-> <<"d", "m", "Y">>]
    ELSE [sep |-> "-", dirs |-> <<"d", "b", "y">>]  \* "%d-%b-%y"

\* One strptime directive against one component of the string: the number it
\* yields, or -1 when the directive's pattern does not match.
\*   %d  3[0-1]|[1-2]\d|0[1-9]|[1-9]| [1-9]      %m  1[0-2]|0[1-9]|[1-9]
\*   %Y  \d\d\d\d      %y  \d\d (00-68 -> 20xx, 69-99 -> 19xx)
\*   %b  a month abbreviation, matched ignoring case
ParseDirective(dir, cs) ==
    CASE dir = "d" ->
            IF Len(cs) = 2 /\ cs[1] = " " /\ IsDigit(cs[2]) /\ cs[2] # "0"
            THEN DigitVal(cs[2])
            ELSE IF Len(cs) \in {1, 2} /\ AllDigits(cs) /\ DigitsVal(cs) \in 1..31
            THEN DigitsVal(cs) ELSE -1
      [] dir = "m" ->
            IF Len(cs) \in {1, 2} /\ AllDigits(cs) /\ DigitsVal(cs) \in 1..12
            THEN DigitsVal(cs) ELSE -1
      [] dir = "Y" ->
            IF Len(cs) = 4 /\ AllDigits(cs) THEN DigitsVal(cs) ELSE -1
      [] dir = "y" ->
            IF Len(cs) = 2 /\ AllDigits(cs)
            THEN (IF DigitsVal(cs) < 69 THEN 2000 + DigitsVal(cs)
                  ELSE 1900 + DigitsVal(cs))
            ELSE -1
      [] dir = "b" ->
            IF \E k \in 1..12 : Lower(MonthAbbr[k]) = Lower(cs)
            THEN CHOOSE k \in 1..12 : Lower(MonthAbbr[k]) = Lower(cs)
            ELSE -1

\* datetime.datetime.strptime(date_string, date_format)
strptime(v, date_format) ==
    IF v.t # "str" THEN Raise("TypeError", "strptime() argument 1 must be str")
    ELSE
      LET fp == FormatParts(date_format)
          parts == Split(v.s, fp.sep)
      IN IF Len(parts) # 3
         THEN Raise("ValueError", "time data does not match format")
         ELSE
           LET d == ParseDirective(fp.dirs[1], parts[1])
               mo == ParseDirective(fp.dirs[2], parts[2])
               y == ParseDirective(fp.dirs[3], parts[3])
           IN IF d < 0 \/ mo < 0 \/ y < 0
              THEN Raise("ValueError", "time data does not match format")
              ELSE IF y < 1 THEN Raise("ValueError", "year is out of range")
              ELSE IF d > DaysInMonth(y, mo)
              THEN Raise("ValueError", "day is out of range for month")
              ELSE Ok(D(y, mo, d))

\* datetime.strftime(date_format) of a datetime.  %d and %m are two digits,
\* %b the month abbreviation, %y the year modulo 100 as two digits.  %Y is
\* handed to the C library: it pads the year to four digits on some builds
\* and prints it unpadded (glibc) on others; pads says which.
strftime(dt, date_format, pads) ==
    IF date_format = "%d/%m/%Y"
    THEN ZeroPad(NatText(dt.d), 2) \o <<"/">> \o ZeroPad(NatText(dt.mo), 2) \o <<"/">>
         \o (IF pads THEN ZeroPad(NatText(dt.y), 4) ELSE NatText(dt.y))
    ELSE ZeroPad(NatText(dt.d), 2) \o <<"-">> \o MonthAbbr[dt.mo] \o <<"-">>
         \o ZeroPad(NatText(dt.y % 100), 2)

\* ------------------------------------------------------------------ Transaction
\* Transaction.__init__ stores its twelve arguments as given.
Transaction(transaction_id, date_claimed, first_name, last_name, dob, item_id, item_description, cost, fund_cover, payment_method, provider, health_fund) ==
    [transaction_id |-> transaction_id, date_claimed |-> date_claimed,
     first_name |-> first_name, last_name |-> last_name, dob |-> dob,
     item_id |-> item_id, item_description |-> item_description, cost |-> cost,
     fund_cover |-> fund_cover, payment_method |-> payment_method,
     provider |-> provider, health_fund |-> health_fund]

\* ------------------------------------------------------------------ field builders
\* row[key]: KeyError when the dict has no such key.
GetItem(row, key) ==
    IF key \in DOMAIN row THEN Ok(row[key]) ELSE Raise("KeyError", key)

\* try: ... except Exception: raise ValueError('Invalid value for <fieldname>')
ExceptAsValueError(res, fieldname) ==
    IF res.ok THEN res ELSE Raise("ValueError", fieldname)

\* str(x), as '{}'.format(x) and csv's writer apply it.
py_str(v) ==
    CASE v.t = "str" -> v.s
      [] v.t = "int" -> IntText(v.n)
      [] v.t = "float" -> FloatText(v)
      [] v.t = "None" -> <<"N", "o", "n", "e">>

\* Mutant: the emptiness test is missing, a falsy value is returned as it is.
_build_string_value_unchecked(row, fieldname) ==
    ExceptAsValueError(GetItem(row, fieldname), fieldname)

_build_string_value(row, fieldname) ==
    LET item == GetItem(row, fieldname)
    IN ExceptAsValueError(
           IF ~item.ok THEN item
           ELSE IF ~Truthy(item.v) THEN Raise("Exception", "No data in field")
           ELSE item,
           fieldname)

_build_monetary_value(row, fieldname) ==
    LET item == GetItem(row, fieldname)
    IN ExceptAsValueError(IF item.ok THEN py_float(item.v) ELSE item, fieldname)

build_transaction_id(row, fieldname) ==
    LET item == GetItem(row, fieldname)
    IN ExceptAsValueError(IF item.ok THEN py_int(item.v) ELSE item, fieldname)

build_date_claimed(row, date_format, fieldname) ==
    LET item == GetItem(row, fieldname)
    IN ExceptAsValueError(IF item.ok THEN strptime(item.v, date_format) ELSE item,
                          fieldname)

build_dob(row, date_format, fieldname) ==
    LET item == GetItem(row, fieldname)
    IN ExceptAsValueError(IF item.ok THEN strptime(item.v, date_format) ELSE item,
                          fieldname)

\* Mutant: the names are merged without the space between them.
Coverall_build_first_name_nospace(row, fieldname) ==
    LET first_name == _build_string_value(row, fieldname)
        middle == GetItem(row, "MiddleName")
    IN IF ~first_name.ok THEN first_name
       ELSE IF ~middle.ok THEN middle
       ELSE IF Truthy(middle.v)
       THEN Ok(S(py_str(first_name.v) \o py_str(middle.v)))
       ELSE first_name

\* CoverallConverter.build_first_name: the base builder, then MiddleName is read
\* outside any try block and appended after a space when truthy.
Coverall_build_first_name(row, fieldname) ==
    LET first_name == _build_string_value(row, fieldname)
        middle == GetItem(row, "MiddleName")
    IN IF ~first_name.ok THEN first_name
       ELSE IF ~middle.ok THEN middle
       ELSE IF Truthy(middle.v)
       THEN Ok(S(py_str(first_name.v) \o <<" ">> \o py_str(middle.v)))
       ELSE first_name

\* build_first_name, dispatched on the converter class.
build_first_name(self, row, fieldname) ==
    IF self = "CoverallConverter" THEN Coverall_build_first_name(row, fieldname)
    ELSE _build_string_value(row, fieldname)

build_last_name(row, fieldname) == _build_string_value(row, fieldname)
build_item_id(row, fieldname) == _build_string_value(row, fieldname)
build_item_description(row, fieldname) == _build_string_value(row, fieldname)
build_cost(row, fieldname) == _build_monetary_value(row, fieldname)
build_fund_cover(row, fieldname) == _build_monetary_value(row, fieldname)
build_payment_method(row, fieldname) == _build_string_value(row, fieldname)
build_provider(row, fieldname) == _build_string_value(row, fieldname)

\* ABCConverter.HEALTH_FUND
HEALTH_FUND == S(<<"A", "B", "C">>)

\* Mutant: ABCConverter does not override the builder and reads the row.
build_health_fund_from_row(self, row, fieldname) ==
    _build_string_value(row, fieldname)

\* build_health_fund: ABCConverter returns its constant whatever it is given;
\* the base class reads the row.
build_health_fund(self, row, fieldname) ==
    IF self = "ABCConverter" THEN Ok(HEALTH_FUND)
    ELSE _build_string_value(row, fieldname)

\* The keyword arguments of Transaction(...) are evaluated in the order they
\* are written; the first builder that raises ends the call.
FirstRaise(results) ==
    results[CHOOSE k \in 1..Len(results) :
                ~results[k].ok /\ \A h \in 1..(k - 1) : results[h].ok]

ABC_convert_row_to_transaction(row) ==
    LET transaction_id == build_transaction_id(row, "TransactionID")
        date_claimed == build_date_claimed(row, "%d/%m/%Y", "DateClaimed")
        dob == build_dob(row, "%d/%m/%Y", "DOB")
        first_name == build_first_name("ABCConverter", row, "FirstName")
        last_name == build_last_name(row, "LastName")
        item_id == build_item_id(row, "ItemID")
        item_description == build_item_description(row, "ItemDescription")
        cost == build_cost(row, "Cost")
        fund_cover == build_fund_cover(row, "FundCoverAmount")
        payment_method == build_payment_method(row, "PaymentMethod")
        provider == build_provider(row, "ProviderCode")
        health_fund == build_health_fund("ABCConverter", row, "HealthFund")
        results == <<transaction_id, date_claimed, dob, first_name, last_name,
                     item_id, item_description, cost, fund_cover, payment_method,
                     provider, health_fund>>
    IN IF \E k \in 1..Len(results) : ~results[k].ok THEN FirstRaise(results)
       ELSE Ok(Transaction(transaction_id.v, date_claimed.v, first_name.v,
                           last_name.v, dob.v, item_id.v, item_description.v,
                           cost.v, fund_cover.v, payment_method.v, provider.v,
                           health_fund.v))

Coverall_convert_row_to_transaction(row) ==
    LET transaction_id == build_transaction_id(row, "TransactionID")
        date_claimed == build_date_claimed(row, "%d-%b-%y", "DateClaimed")
        first_name == build_first_name("CoverallConverter", row, "FirstName")
        last_name == build_last_name(row, "LastName")
        dob == build_dob(row, "%d/%m/%Y", "DateOfBirth")
        item_id == build_item_id(row, "ItemID")
        item_description == build_item_description(row, "ItemDesc")
        cost == build_cost(row, "Cost")
        fund_cover == build_fund_cover(row, "FundCover")
        payment_method == build_payment_method(row, "PaymentType")
        provider == build_provider(row, "Provider")
        health_fund == build_health_fund("CoverallConverter", row, "HealthFund")
        results == <<transaction_id, date_claimed, first_name, last_name, dob,
                     item_id, item_description, cost, fund_cover, payment_method,
                     provider, health_fund>>
    IN IF \E k \in 1..Len(results) : ~results[k].ok THEN FirstRaise(results)
       ELSE Ok(Transaction(transaction_id.v, date_claimed.v, first_name.v,
                           last_name.v, dob.v, item_id.v, item_description.v,
                           cost.v, fund_cover.v, payment_method.v, provider.v,
                           health_fund.v))

\* convert_row_to_transaction, dispatched on the converter class.
convert_row_to_transaction(self, row) ==
    IF self = "ABCConverter" THEN ABC_convert_row_to_transaction(row)
    ELSE Coverall_convert_row_to_transaction(row)

\* ------------------------------------------------------------------ TransactionsCSVWriter
\* The normalised field names (in order).
field_names ==
    <<"TransactionID", "DateClaimed", "FirstName", "LastName", "DateOfBirth",
      "ItemID", "ItemDescription", "Cost", "FundCover", "PaymentMethod",
      "Provider", "HealthFund">>

\* The characters of each field name, for the header line.
FieldText(name) ==
    CASE name = "TransactionID" -> <<"T", "r", "a", "n", "s", "a", "c", "t", "i", "o", "n", "I", "D">>
      [] name = "DateClaimed" -> <<"D", "a", "t", "e", "C", "l", "a", "i", "m", "e", "d">>
      [] name = "FirstName" -> <<"F", "i", "r", "s", "t", "N", "a", "m", "e">>
      [] name = "LastName" -> <<"L", "a", "s", "t", "N", "a", "m", "e">>
      [] name = "DateOfBirth" -> <<"D", "a", "t", "e", "O", "f", "B", "i", "r", "t", "h">>
      [] name = "ItemID" -> <<"I", "t", "e", "m", "I", "D">>
      [] name = "ItemDescription" -> <<"I", "t", "e", "m", "D", "e", "s", "c", "r", "i", "p", "t", "i", "o", "n">>
      [] name = "Cost" -> <<"C", "o", "s", "t">>
      [] name = "FundCover" -> <<"F", "u", "n", "d", "C", "o", "v", "e", "r">>
      [] name = "PaymentMethod" -> <<"P", "a", "y", "m", "e", "n", "t", "M", "e", "t", "h", "o", "d">>
      [] name = "Provider" -> <<"P", "r", "o", "v", "i", "d", "e", "r">>
      [] name = "HealthFund" -> <<"H", "e", "a", "l", "t", "h", "F", "u", "n", "d">>

\* x.strftime(fmt) on an attribute: only a datetime has the method.
CallStrftime(v, date_format, pads) ==
    IF v.t = "date" THEN Ok(S(strftime(v, date_format, pads)))
    ELSE Raise("AttributeError", "strftime")

\* dictify_transaction: the dict literal's values are evaluated in order, so
\* date_claimed is formatted before dob.
dictify_transaction(transaction, pads) ==
    LET date_claimed == CallStrftime(transaction.date_claimed, "%d-%b-%y", pads)
        dob == CallStrftime(transaction.dob, "%d/%m/%Y", pads)
    IN IF ~date_claimed.ok THEN date_claimed
       ELSE IF ~dob.ok THEN dob
       ELSE Ok([TransactionID |-> transaction.transaction_id,
                DateClaimed |-> date_claimed.v,
                FirstName |-> transaction.first_name,
                LastName |-> transaction.last_name,
                DateOfBirth |-> dob.v,
                ItemID |-> transaction.item_id,
                ItemDescription |-> transaction.item_description,
                Cost |-> transaction.cost,
                FundCover |-> transaction.fund_cover,
                PaymentMethod |-> transaction.payment_method,
                Provider |-> transaction.provider,
                HealthFund |-> transaction.health_fund])

\* csv's writer turns a field into text: None is the empty string, a str is
\* itself, anything else str(field) (repr for a float).
CsvFieldText(v) == IF v.t = "None" THEN <<>> ELSE py_str(v)

\* With quoting=csv.QUOTE_NONE and no escapechar, a field holding the
\* delimiter, the quote character or a line break cannot be written.
NeedsEscape(cs) == \E k \in 1..Len(cs) : cs[k] \in {",", "\"", "\r", "\n"}

\* DictWriter.writerow(rowdict): the line it writes (without its terminator),
\* or csv.Error; nothing is written when it raises.
writerow(rowdict) ==
    LET texts == [k \in 1..Len(field_names) |-> CsvFieldText(rowdict[field_names[k]])]
    IN IF \E k \in 1..Len(texts) : NeedsEscape(texts[k])
       THEN Raise("csv.Error", "need to escape, but no escapechar set")
       ELSE Ok(Join(texts, ","))

\* DictWriter.writeheader(): the field names as one line.
HeaderLine == Join([k \in 1..Len(field_names) |-> FieldText(field_names[k])], ",")

\* The body of create_csv's loop for one transaction: the line to write, or
\* the exception the except clause logs.
FormatRecord(transaction, pads) ==
    LET transaction_dict == dictify_transaction(transaction, pads)
    IN IF transaction_dict.ok THEN writerow(transaction_dict.v) ELSE transaction_dict

\* ------------------------------------------------------------------ inputs
Converters == {"ABCConverter", "CoverallConverter"}

\* Marks a column that the row does not have (only while rows are built).
Absent == [t |-> "absent"]

\* row with column c set to value a, or without column c when a is Absent.
Replace(row, c, a) ==
    IF a = Absent THEN [k \in (DOMAIN row) \ {c} |-> row[k]]
    ELSE [k \in (DOMAIN row) \cup {c} |-> IF k = c THEN a ELSE row[k]]

\* The row of test_ABC_converter, as csv.DictReader yields it (every value a str).
ABCBase ==
    [TransactionID |-> S(<<"1">>), DateClaimed |-> S(<<"0", "1", "/", "0", "1", "/", "2", "0", "1", "7">>),
     DOB |-> S(<<"0", "1", "/", "0", "1", "/", "2", "0", "1", "4">>), FirstName |-> S(<<"A", "s", "h">>),
     LastName |-> S(<<"R", "a", "m", "e", "s", "h">>), ItemID |-> S(<<"A", "A", "A">>),
     ItemDescription |-> S(<<"B", "B", "B", "B">>), Cost |-> S(<<"1", "0">>),
     FundCoverAmount |-> S(<<"1", "0">>), PaymentMethod |-> S(<<"C", "a", "s", "h">>),
     ProviderCode |-> S(<<"A", "B", "C", "X">>)]

\* The row of test_Coverall_data with FirstName 'Ash'.
CoverallBase ==
    [TransactionID |-> S(<<"1">>), DateClaimed |-> S(<<"0", "1", "-", "J", "a", "n", "-", "1", "7">>),
     DateOfBirth |-> S(<<"0", "1", "/", "0", "1", "/", "2", "0", "1", "4">>), FirstName |-> S(<<"A", "s", "h">>),
     MiddleName |-> S(<<"B", "a", "b">>), LastName |-> S(<<"R", "a", "m", "e", "s", "h">>), ItemID |-> S(<<"A", "A", "A">>),
     ItemDesc |-> S(<<"B", "B", "B", "B">>), Cost |-> S(<<"1", "0">>), FundCover |-> S(<<"1", "0">>),
     PaymentType |-> S(<<"C", "a", "s", "h">>), Provider |-> S(<<"A", "B", "C", "X">>),
     HealthFund |-> S(<<"C", "o", "v", "e", "r", "a", "l", "l">>)]

\* Base rows: the first source with and without a HealthFund column, the second
\* with each kind of MiddleName (present, None, empty, no such column).
BaseRows(self) ==
    IF self = "ABCConverter"
    THEN {Replace(ABCBase, "HealthFund", a) : a \in {Absent, S(<<>>), S(<<"H", "C", "F">>)}}
    ELSE {Replace(CoverallBase, "MiddleName", a) :
              a \in {S(<<"B", "a", "b">>), NoneV, S(<<>>), Absent}}

StrAlts == {Absent, NoneV, S(<<>>), S(<<" ">>), S(<<"a", ",", "b">>)}
IntAlts ==
    {Absent, NoneV, S(<<>>), S(<<"A">>), S(<<" ", "1", "2", " ">>), S(<<"-", "3">>), S(<<"1", ".", "5">>), I(1)}
MoneyAlts ==
    {Absent, NoneV, S(<<>>), S(<<"a", "b", "c">>), S(<<"1", "0", ".", "5", "0">>), S(<<".", "5">>), S(<<"1", ".", "2", ".", "3">>), I(10)}
SlashDateAlts ==
    {Absent, NoneV, S(<<>>), S(<<"0", "1", "-", "0", "1", "/", "2", "0", "1", "7">>), S(<<"0", "4", "/", "0", "9", "/", "1", "9", "9", "2">>), S(<<"2", "9", "/", "0", "2", "/", "2", "0", "1", "7">>),
     S(<<"2", "9", "/", "0", "2", "/", "2", "0", "1", "6">>), S(<<"1", "/", "1", "/", "2", "0", "1", "7">>), S(<<"0", "1", "/", "0", "1", "/", "0", "9", "9", "9">>), S(<<"0", "1", "/", "0", "1", "/", "0", "0", "0", "0">>),
     S(<<"0", "1", "-", "J", "a", "n", "-", "1", "7">>)}
AbbrDateAlts ==
    {Absent, NoneV, S(<<>>), S(<<"1", "8", "-", "f", "e", "b", "-", "1", "7">>), S(<<"0", "4", "-", "S", "e", "p", "-", "9", "2">>), S(<<"3", "1", "-", "A", "p", "r", "-", "1", "7">>),
     S(<<"0", "1", "/", "0", "1", "/", "2", "0", "1", "7">>), S(<<"0", "1", "-", "J", "a", "n", "-", "2", "0", "1", "7">>)}

\* The columns a converter reads besides MiddleName, and what each may hold.
Columns(self) ==
    IF self = "ABCConverter"
    THEN {"TransactionID", "DateClaimed", "DOB", "FirstName", "LastName", "ItemID",
          "ItemDescription", "Cost", "FundCoverAmount", "PaymentMethod",
          "ProviderCode"}
    ELSE {"TransactionID", "DateClaimed", "DateOfBirth", "FirstName", "LastName",
          "ItemID", "ItemDesc", "Cost", "FundCover", "PaymentType", "Provider",
          "HealthFund"}

Alts(self, c) ==
    CASE c = "TransactionID" -> IntAlts
      [] c \in {"Cost", "FundCover", "FundCoverAmount"} -> MoneyAlts
      [] c \in {"DOB", "DateOfBirth"} -> SlashDateAlts
      [] c = "DateClaimed" ->
            (IF self = "ABCConverter" THEN SlashDateAlts ELSE AbbrDateAlts)
      [] OTHER -> StrAlts

RECURSIVE Perturb(_, _, _)
Perturb(self, rows, k) ==
    IF k = 0 THEN rows
    ELSE rows \cup Perturb(self,
                           {Replace(r, c[1], c[2]) :
                                r \in rows,
                                c \in UNION {{<<col, a>> : a \in Alts(self, col)} :
                                                 col \in Columns(self)}},
                           k - 1)

\* The rows a converter is applied to: a base row with at most MaxPerturbed
\* columns replaced.
Rows(self) == Perturb(self, BaseRows(self), MaxPerturbed)

\* The rows input files are made of: valid rows, rows that fail conversion
\* and a valid row whose record the writer cannot write.
FileRows(self) ==
    IF self = "ABCConverter"
    THEN {ABCBase,
          Replace(ABCBase, "TransactionID", S(<<" ", "1", "2", " ">>)),
          Replace(ABCBase, "FirstName", S(<<>>)),
          Replace(ABCBase, "ItemDescription", S(<<"a", ",", "b">>)),
          Replace(ABCBase, "DOB", S(<<"0", "1", "/", "0", "1", "/", "0", "9", "9", "9">>)),
          Replace(ABCBase, "ProviderCode", NoneV)}
    ELSE {CoverallBase,
          Replace(Replace(CoverallBase, "MiddleName", NoneV),
                  "TransactionID", S(<<" ", "1", "2", " ">>)),
          Replace(CoverallBase, "FirstName", S(<<>>)),
          Replace(CoverallBase, "ItemDesc", S(<<"a", ",", "b">>)),
          Replace(CoverallBase, "MiddleName", Absent),
          Replace(Replace(CoverallBase, "MiddleName", Absent), "Cost", S(<<"a", "b", "c">>))}

RECURSIVE SeqsUpTo(_, _)
SeqsUpTo(set, n) ==
    IF n = 0 THEN {<<>>}
    ELSE LET shorter == SeqsUpTo(set, n - 1)
         IN shorter \cup {Append(q, x) : q \in {p \in shorter : Len(p) = n - 1}, x \in set}

\* Input files: csv.DictReader gives every row of a file the same keys, those
\* of the file's header line.
InputFiles(self) ==
    {f \in SeqsUpTo(FileRows(self), MaxRows) :
         \A a, b \in 1..Len(f) : DOMAIN f[a] = DOMAIN f[b]}

\* The transaction of tests.py's setUp.
TestTransaction ==
    Transaction(I(1), D(2017, 1, 1), S(<<"A", "s", "h">>), S(<<"R", "a", "m", "e", "s", "h">>), D(1992, 9, 4),
                S(<<"D", "e", "n", "t", "a", "l", "0", "1">>), S(<<"N", "e", "w", " ", "T", "e", "e", "t", "h">>), I(10000), I(9000), S(<<"C", "a", "s", "h">>),
                S(<<"A", "s", "h", "C", "o", "v", "e", "r">>), S(<<"A", "s", "h", "H", "e", "a", "l", "t", "h">>))

\* Transactions given directly to create_csv: valid ones, one whose
\* description holds the delimiter, one whose date_claimed is None and one
\* born before the year 1000.
TxPool ==
    {TestTransaction,
     [TestTransaction EXCEPT !.transaction_id = I(2), !.cost = F(105, 1),
                             !.fund_cover = F(9, 0)],
     [TestTransaction EXCEPT !.transaction_id = I(3),
                             !.item_description = S(<<"C", "r", "o", "w", "n", ",", " ", "g", "o", "l", "d">>)],
     [TestTransaction EXCEPT !.transaction_id = I(4), !.date_claimed = NoneV],
     [TestTransaction EXCEPT !.transaction_id = I(5), !.dob = D(999, 12, 31)]}

\* ------------------------------------------------------------------ state
VARIABLES
    self,          \* the converter class the call is made on
    pads_year,     \* whether this build's strftime pads %Y to four digits
    pc,            \* where the call in progress is
    row,           \* the row given to a single convert_row_to_transaction call
    result,        \* what that call (or build_first_name) returned or raised
    dict_,         \* what dictify_transaction returned or raised
    file,          \* the input file's data rows, as csv.DictReader yields them
    in_handle,     \* the input file handle: "unopened", "open", "closed"
    i,             \* enumerate(reader, start=2): the next row's number
    transactions,  \* convert_raw_csv_to_transaction's list; create_csv's argument
    error_count,   \* convert_raw_csv_to_transaction's counter
    log,           \* what was handed to the logger, in order
    out_file,      \* the output file: whether it exists, and its lines
    out_handle,    \* the output file handle: "unopened", "open", "closed"
    j,             \* create_csv's position in transactions
    raised         \* the exception that left the outermost call, or "None"

vars ==
    <<self, pads_year, pc, row, result, dict_, file, in_handle, i, transactions,
      error_count, log, out_file, out_handle, j, raised>>

\* enumerate(reader, start=2)
FirstRowNumber == 2

NoResult == [ok |-> FALSE, exc |-> "not called", arg |-> ""]
NoRow == [x \in {} |-> NoneV]
NoFile == [exists |-> FALSE, lines |-> <<>>]
\* An output file left by an earlier run.
OldFile == [exists |-> TRUE, lines |-> <<<<"s", "t", "a", "l", "e">>>>]

LogEntry(level, msg, exc, n) == [level |-> level, msg |-> msg, exc |-> exc, n |-> n]

\* ------------------------------------------------------------------ single calls
\* One row handed to a converter.
InitRow ==
    /\ self \in Converters
    /\ pads_year \in BOOLEAN
    /\ pc = "row"
    /\ row \in Rows(self)
    /\ result = NoResult
    /\ dict_ = NoResult
    /\ file = <<>>
    /\ in_handle = "unopened"
    /\ i = FirstRowNumber
    /\ transactions = <<>>
    /\ error_count = 0
    /\ log = <<>>
    /\ out_file = NoFile
    /\ out_handle = "unopened"
    /\ j = 1
    /\ raised = "None"

\* self.convert_row_to_transaction(row)
ConvertRowToTransaction ==
    /\ pc = "row"
    /\ result' = convert_row_to_transaction(self, row)
    /\ pc' = "converted"
    /\ UNCHANGED <<self, pads_year, row, dict_, file, in_handle, i, transactions,
                   error_count, log, out_file, out_handle, j, raised>>

\* self.build_first_name(row)
BuildFirstName ==
    /\ pc = "row"
    /\ result' = build_first_name(self, row, "FirstName")
    /\ pc' = "built"
    /\ UNCHANGED <<self, pads_year, row, dict_, file, in_handle, i, transactions,
                   error_count, log, out_file, out_handle, j, raised>>

\* TransactionsCSVWriter().dictify_transaction(transaction) on the record the
\* converter returned; the record is an argument and is left as it is.
DictifyTransaction ==
    /\ pc = "converted"
    /\ result.ok
    /\ dict_' = dictify_transaction(result.v, pads_year)
    /\ pc' = "dictified"
    /\ UNCHANGED <<self, pads_year, row, result, file, in_handle, i, transactions,
                   error_count, log, out_file, out_handle, j, raised>>

NextRow == ConvertRowToTransaction \/ BuildFirstName \/ DictifyTransaction

SpecRow == InitRow /\ [][NextRow]_vars

\* ------------------------------------------------------------------ create_csv
\* open(full_file_name, 'w'): creates or truncates the file, or raises OSError,
\* which nothing in create_csv or convert catches.
create_csv_open ==
    /\ pc = "create_csv"
    /\ \/ /\ out_file' = [exists |-> TRUE, lines |-> <<>>]
          /\ out_handle' = "open"
          /\ pc' = "writeheader"
          /\ UNCHANGED raised
       \/ /\ raised' = "OSError"
          /\ pc' = "aborted"
          /\ UNCHANGED <<out_file, out_handle>>
    /\ UNCHANGED <<self, pads_year, row, result, dict_, file, in_handle, i,
                   transactions, error_count, log, j>>

\* writer.writeheader()
create_csv_writeheader ==
    /\ pc = "writeheader"
    /\ out_file' = [out_file EXCEPT !.lines = Append(@, HeaderLine)]
    /\ j' = 1
    /\ pc' = "writing"
    /\ UNCHANGED <<self, pads_year, row, result, dict_, file, in_handle, i,
                   transactions, error_count, log, out_handle, raised>>

\* Mutant: the loop body has no try block, the exception leaves create_csv.
create_csv_iter_unguarded ==
    /\ pc = "writing"
    /\ j <= Len(transactions)
    /\ LET written == FormatRecord(transactions[j], pads_year)
       IN IF written.ok
          THEN /\ out_file' = [out_file EXCEPT !.lines = Append(@, written.v)]
               /\ j' = j + 1
               /\ UNCHANGED <<pc, raised, out_handle>>
          ELSE /\ raised' = written.exc
               /\ pc' = "aborted"
               /\ out_handle' = "closed"
               /\ UNCHANGED <<out_file, j>>
    /\ UNCHANGED <<self, pads_year, row, result, dict_, file, in_handle, i,
                   transactions, error_count, log>>

\* One turn of `for transaction in transactions`: dictify and write the row;
\* any Exception is logged and the loop goes on.
create_csv_iter ==
    /\ pc = "writing"
    /\ j <= Len(transactions)
    /\ LET written == FormatRecord(transactions[j], pads_year)
       IN IF written.ok
          THEN /\ out_file' = [out_file EXCEPT !.lines = Append(@, written.v)]
               /\ UNCHANGED log
          ELSE /\ log' = Append(log, LogEntry("error", "format", written.exc, j))
               /\ UNCHANGED out_file
    /\ j' = j + 1
    /\ UNCHANGED <<self, pads_year, pc, row, result, dict_, file, in_handle, i,
                   transactions, error_count, out_handle, raised>>

\* The loop is over: the with block closes the file, the creation is logged
\* and create_csv returns.
create_csv_return ==
    /\ pc = "writing"
    /\ j > Len(transactions)
    /\ out_handle' = "closed"
    /\ log' = Append(log, LogEntry("info", "CSV file created", "", 0))
    /\ pc' = "done"
    /\ UNCHANGED <<self, pads_year, row, result, dict_, file, in_handle, i,
                   transactions, error_count, out_file, j, raised>>

\* create_csv called on a list of transactions, as tests.py does.
InitWriter ==
    /\ self = "TransactionsCSVWriter"
    /\ pads_year \in BOOLEAN
    /\ pc = "create_csv"
    /\ transactions \in SeqsUpTo(TxPool, MaxTx)
    /\ out_file \in {NoFile, OldFile}
    /\ row = NoRow
    /\ result = NoResult
    /\ dict_ = NoResult
    /\ file = <<>>
    /\ in_handle = "unopened"
    /\ i = FirstRowNumber
    /\ error_count = 0
    /\ log = <<>>
    /\ out_handle = "unopened"
    /\ j = 1
    /\ raised = "None"

NextWriter ==
    create_csv_open \/ create_csv_writeheader \/ create_csv_iter \/ create_csv_return

SpecWriter == InitWriter /\ [][NextWriter]_vars

\* ------------------------------------------------------------------ convert
\* Mutant: a failed open is swallowed and convert goes on with no rows.
convert_raw_csv_to_transaction_open_swallows ==
    /\ pc = "convert"
    /\ \/ /\ in_handle' = "open"
          /\ pc' = "reading"
       \/ /\ pc' = "create_csv"
          /\ UNCHANGED in_handle
    /\ UNCHANGED <<self, pads_year, row, result, dict_, file, i, transactions,
                   error_count, log, out_file, out_handle, j, raised>>

\* open(file_path) in convert_raw_csv_to_transaction: the handle, or OSError,
\* which nothing catches.
convert_raw_csv_to_transaction_open ==
    /\ pc = "convert"
    /\ \/ /\ in_handle' = "open"
          /\ pc' = "reading"
          /\ UNCHANGED raised
       \/ /\ raised' = "OSError"
          /\ pc' = "aborted"
          /\ UNCHANGED in_handle
    /\ UNCHANGED <<self, pads_year, row, result, dict_, file, i, transactions,
                   error_count, log, out_file, out_handle, j>>

\* Mutant: the try block is around the loop, the first failing row ends it.
convert_raw_csv_to_transaction_iter_breaks ==
    /\ pc = "reading"
    /\ i - FirstRowNumber < Len(file)
    /\ LET converted == convert_row_to_transaction(self, file[i - FirstRowNumber + 1])
       IN IF converted.ok
          THEN /\ transactions' = Append(transactions, converted.v)
               /\ i' = i + 1
               /\ UNCHANGED <<error_count, log>>
          ELSE /\ error_count' = error_count + 1
               /\ log' = Append(log, LogEntry("error", "Error converting record",
                                              converted.exc, i))
               /\ i' = FirstRowNumber + Len(file)
               /\ UNCHANGED transactions
    /\ UNCHANGED <<self, pads_year, pc, row, result, dict_, file, in_handle,
                   out_file, out_handle, j, raised>>

\* One turn of `for i, row in enumerate(reader, start=2)`: the record is
\* appended, or any Exception is counted and logged with the row's number.
convert_raw_csv_to_transaction_iter ==
    /\ pc = "reading"
    /\ i - FirstRowNumber < Len(file)
    /\ LET converted == convert_row_to_transaction(self, file[i - FirstRowNumber + 1])
       IN IF converted.ok
          THEN /\ transactions' = Append(transactions, converted.v)
               /\ UNCHANGED <<error_count, log>>
          ELSE /\ error_count' = error_count + 1
               /\ log' = Append(log, LogEntry("error", "Error converting record",
                                              converted.exc, i))
               /\ UNCHANGED transactions
    /\ i' = i + 1
    /\ UNCHANGED <<self, pads_year, pc, row, result, dict_, file, in_handle,
                   out_file, out_handle, j, raised>>

\* Mutant: the summary is logged whether or not a row failed.
convert_raw_csv_to_transaction_return_always_logs ==
    /\ pc = "reading"
    /\ i - FirstRowNumber >= Len(file)
    /\ in_handle' = "closed"
    /\ log' = Append(log, LogEntry("error", "Errors", "", error_count))
    /\ pc' = "create_csv"
    /\ UNCHANGED <<self, pads_year, row, result, dict_, file, i, transactions,
                   error_count, out_file, out_handle, j, raised>>

\* The reader is exhausted: the with block closes the input, the error count
\* is logged when it is not zero, and the list is returned to convert, which
\* calls create_csv on it.
convert_raw_csv_to_transaction_return ==
    /\ pc = "reading"
    /\ i - FirstRowNumber >= Len(file)
    /\ in_handle' = "closed"
    /\ log' = IF error_count # 0
              THEN Append(log, LogEntry("error", "Errors", "", error_count))
              ELSE log
    /\ pc' = "create_csv"
    /\ UNCHANGED <<self, pads_year, row, result, dict_, file, i, transactions,
                   error_count, out_file, out_handle, j, raised>>

\* converter.convert(file_path, output_file_name) on an input file.
Init ==
    /\ self \in Converters
    /\ pads_year \in BOOLEAN
    /\ pc = "convert"
    /\ file \in InputFiles(self)
    /\ out_file \in {NoFile, OldFile}
    /\ row = NoRow
    /\ result = NoResult
    /\ dict_ = NoResult
    /\ in_handle = "unopened"
    /\ i = FirstRowNumber
    /\ transactions = <<>>
    /\ error_count = 0
    /\ log = <<>>
    /\ out_handle = "unopened"
    /\ j = 1
    /\ raised = "None"

Next ==
    \/ convert_raw_csv_to_transaction_open
    \/ convert_raw_csv_to_transaction_iter
    \/ convert_raw_csv_to_transaction_return
    \/ create_csv_open
    \/ create_csv_writeheader
    \/ create_csv_iter
    \/ create_csv_return

Spec == Init /\ [][Next]_vars

\* ------------------------------------------------------------------ properties of single calls
\* The columns each converter reads from the row.
ReadColumns(conv) ==
    IF conv = "ABCConverter" THEN Columns(conv) ELSE Columns(conv) \cup {"MiddleName"}

DateFormat(conv, c) ==
    IF c = "DateClaimed" /\ conv = "CoverallConverter" THEN "%d-%b-%y" ELSE "%d/%m/%Y"

\* Column c of the row is absent, empty (None or '') or not coercible to the
\* type of the field built from it.
BadColumn(conv, r, c) ==
    \/ c \notin DOMAIN r
    \/ r[c] = NoneV
    \/ r[c] = S(<<>>)
    \/ c = "TransactionID" /\ ~py_int(r[c]).ok
    \/ c \in {"Cost", "FundCover", "FundCoverAmount"} /\ ~py_float(r[c]).ok
    \/ c \in {"DateClaimed", "DOB", "DateOfBirth"}
          /\ ~strptime(r[c], DateFormat(conv, c)).ok

NonEmptyStr(v) == v.t = "str" /\ Len(v.s) > 0

\* A fully populated record of the declared types.
ValidRecord(tx) ==
    /\ tx.transaction_id.t = "int"
    /\ tx.date_claimed.t = "date"
    /\ tx.dob.t = "date"
    /\ tx.cost.t \in {"int", "float"}
    /\ tx.fund_cover.t \in {"int", "float"}
    /\ NonEmptyStr(tx.first_name) /\ NonEmptyStr(tx.last_name)
    /\ NonEmptyStr(tx.item_id) /\ NonEmptyStr(tx.item_description)
    /\ NonEmptyStr(tx.payment_method) /\ NonEmptyStr(tx.provider)
    /\ NonEmptyStr(tx.health_fund)

\* The record a converter returned is valid and its typed fields are the
\* row's values coerced with the converter's formats.
ValidRecordOf(conv, r, tx) ==
    /\ ValidRecord(tx)
    /\ tx.transaction_id = py_int(r["TransactionID"]).v
    /\ tx.date_claimed = strptime(r["DateClaimed"], DateFormat(conv, "DateClaimed")).v
    /\ LET c == IF conv = "ABCConverter" THEN "DOB" ELSE "DateOfBirth"
       IN tx.dob = strptime(r[c], DateFormat(conv, c)).v
    /\ tx.cost.t = "float" /\ tx.cost = py_float(r["Cost"]).v
    /\ LET c == IF conv = "ABCConverter" THEN "FundCoverAmount" ELSE "FundCover"
       IN tx.fund_cover.t = "float" /\ tx.fund_cover = py_float(r[c]).v

\* C4 as stated: every record convert_row_to_transaction returns is fully
\* populated and valid, and a row in which ANY column the converter reads
\* (MiddleName included) is absent, empty or not coercible yields no record.
C4_AnyBadColumnFails ==
    pc = "converted" =>
        /\ result.ok => ValidRecordOf(self, row, result.v)
        /\ (\E c \in ReadColumns(self) : BadColumn(self, row, c)) => ~result.ok

\* C4 amended: every record convert_row_to_transaction returns is fully
\* populated and valid; a row yields no record when a column the converter
\* reads is absent, or when a column other than MiddleName is empty or not
\* coercible.  (A None or empty MiddleName does not stop the conversion.)
C4_BadColumnFailsExceptEmptyMiddleName ==
    pc = "converted" =>
        /\ result.ok => ValidRecordOf(self, row, result.v)
        /\ (\E c \in ReadColumns(self) :
                \/ c \notin DOMAIN row
                \/ c # "MiddleName" /\ BadColumn(self, row, c)) => ~result.ok

\* C4's case: the second converter returned a record for a row whose
\* MiddleName is empty.
C4_Witness ==
    /\ pc = "converted"
    /\ self = "CoverallConverter"
    /\ "MiddleName" \in DOMAIN row
    /\ row["MiddleName"] = S(<<>>)
    /\ result.ok

\* C5: convert_row_to_transaction returns a record or raises ValueError; no
\* other exception class leaves it.
C5_OnlyValueErrorEscapes ==
    pc = "converted" => (result.ok \/ result.exc = "ValueError")

\* text is dt as DD-Mon-YY: two digits, the month's abbreviation, the last
\* two digits of the year.
IsDDMonYY(text, dt) ==
    /\ Len(text) = 9
    /\ text[3] = "-" /\ text[7] = "-"
    /\ AllDigits(SubSeq(text, 1, 2)) /\ DigitsVal(SubSeq(text, 1, 2)) = dt.d
    /\ SubSeq(text, 4, 6) = MonthAbbr[dt.mo]
    /\ AllDigits(SubSeq(text, 8, 9)) /\ DigitsVal(SubSeq(text, 8, 9)) = dt.y % 100

\* text is dt as DD/MM/YYYY: two, two and four digits.
IsDDMMYYYY(text, dt) ==
    /\ Len(text) = 10
    /\ text[3] = "/" /\ text[6] = "/"
    /\ AllDigits(SubSeq(text, 1, 2)) /\ DigitsVal(SubSeq(text, 1, 2)) = dt.d
    /\ AllDigits(SubSeq(text, 4, 5)) /\ DigitsVal(SubSeq(text, 4, 5)) = dt.mo
    /\ AllDigits(SubSeq(text, 7, 10)) /\ DigitsVal(SubSeq(text, 7, 10)) = dt.y

\* C6: for a valid record dictify_transaction returns a mapping with exactly
\* the twelve canonical keys, DateClaimed as DD-Mon-YY, DateOfBirth as
\* DD/MM/YYYY, the other ten values the record's own, and the record is left
\* as the converter built it.
C6_DictifyFormatsTwelveFields ==
    pc = "dictified" =>
        /\ dict_.ok
        /\ DOMAIN dict_.v = {field_names[k] : k \in 1..Len(field_names)}
        /\ Len(field_names) = 12
        /\ dict_.v["DateClaimed"].t = "str"
        /\ IsDDMonYY(dict_.v["DateClaimed"].s, result.v.date_claimed)
        /\ dict_.v["DateOfBirth"].t = "str"
        /\ IsDDMMYYYY(dict_.v["DateOfBirth"].s, result.v.dob)
        /\ dict_.v["TransactionID"] = result.v.transaction_id
        /\ dict_.v["FirstName"] = result.v.first_name
        /\ dict_.v["LastName"] = result.v.last_name
        /\ dict_.v["ItemID"] = result.v.item_id
        /\ dict_.v["ItemDescription"] = result.v.item_description
        /\ dict_.v["Cost"] = result.v.cost
        /\ dict_.v["FundCover"] = result.v.fund_cover
        /\ dict_.v["PaymentMethod"] = result.v.payment_method
        /\ dict_.v["Provider"] = result.v.provider
        /\ dict_.v["HealthFund"] = result.v.health_fund
        /\ result = convert_row_to_transaction(self, row)

\* C7: CoverallConverter.build_first_name on a row with a non-empty FirstName
\* gives FirstName, a space and MiddleName when MiddleName is present and
\* non-empty, and FirstName alone when MiddleName is None or empty; with
\* FirstName empty or absent it raises ValueError whatever MiddleName holds.
C7_CoverallFirstName ==
    (pc = "built" /\ self = "CoverallConverter") =>
        LET hasFirst == "FirstName" \in DOMAIN row /\ NonEmptyStr(row["FirstName"])
            hasMiddle == "MiddleName" \in DOMAIN row
        IN /\ (hasFirst /\ hasMiddle /\ NonEmptyStr(row["MiddleName"])) =>
                  result = Ok(S(row["FirstName"].s \o <<" ">> \o row["MiddleName"].s))
           /\ (hasFirst /\ hasMiddle /\ row["MiddleName"] \in {NoneV, S(<<>>)}) =>
                  result = Ok(row["FirstName"])
           /\ (~hasFirst) => (~result.ok /\ result.exc = "ValueError")

\* C7's case: FirstName 'Ash' and MiddleName 'Bab' were merged.
C7_Witness ==
    /\ pc = "built"
    /\ self = "CoverallConverter"
    /\ result = Ok(S(<<"A", "s", "h", " ", "B", "a", "b">>))

\* C8: every record ABCConverter produces has health_fund 'ABC' whatever the
\* row holds, and a missing or empty HealthFund column never makes its
\* conversion fail; CoverallConverter takes health_fund from the row's
\* HealthFund column.
C8_HealthFund ==
    pc = "converted" =>
        /\ (self = "ABCConverter" /\ result.ok) => result.v.health_fund = S(<<"A", "B", "C">>)
        /\ self = "ABCConverter" =>
              /\ result.ok <=> ~\E c \in ReadColumns(self) : BadColumn(self, row, c)
              /\ ~result.ok => result.arg # "HealthFund"
        /\ (self = "CoverallConverter" /\ result.ok) =>
              result.v.health_fund = row["HealthFund"]

\* C8's case: the first converter built a record from a row whose HealthFund
\* column holds another fund.
C8_Witness ==
    /\ pc = "converted"
    /\ self = "ABCConverter"
    /\ "HealthFund" \in DOMAIN row
    /\ row["HealthFund"] = S(<<"H", "C", "F">>)
    /\ result.ok

\* ------------------------------------------------------------------ properties of create_csv
\* The lines create_csv's loop writes for a list of transactions: one per
\* record whose formatting and writing succeed, in list order.
RECURSIVE LinesOf(_, _)
LinesOf(txs, pads) ==
    IF Len(txs) = 0 THEN <<>>
    ELSE LET rest == LinesOf(SubSeq(txs, 1, Len(txs) - 1), pads)
             last == FormatRecord(txs[Len(txs)], pads)
         IN IF last.ok THEN Append(rest, last.v) ELSE rest

\* C2: for a list of N valid records create_csv writes exactly N+1 lines, the
\* header and then one line per record in list order.
C2_ValidRecordsGiveNPlusOneLines ==
    (pc = "done" /\ \A k \in 1..Len(transactions) : ValidRecord(transactions[k])) =>
        /\ Len(out_file.lines) = Len(transactions) + 1
        /\ out_file.lines[1] = HeaderLine
        /\ \A k \in 1..Len(transactions) :
               Ok(out_file.lines[k + 1]) = FormatRecord(transactions[k], pads_year)

\* C3: a record whose formatting or writing fails adds no line, the header
\* and the lines before it stay, the later records are still attempted and
\* create_csv returns normally: once the file is open nothing is raised, at
\* every turn of the loop the file holds the header and the lines of the
\* records so far that formatted, and the loop always goes on to its end.
C3_FailedRecordIsSkipped ==
    /\ pc \in {"writing", "done"} =>
          /\ out_file.exists
          /\ out_file.lines = <<HeaderLine>> \o LinesOf(SubSeq(transactions, 1, j - 1),
                                                       pads_year)
          /\ raised = "None"
    /\ pc = "writing" => j <= Len(transactions) + 1
    /\ pc = "done" => j = Len(transactions) + 1
    /\ pc = "aborted" => out_handle = "unopened"

\* C3's case: of three records the second failed and the third was written.
C3_Witness ==
    /\ pc = "done"
    /\ Len(transactions) = 3
    /\ ~FormatRecord(transactions[2], pads_year).ok
    /\ FormatRecord(transactions[1], pads_year).ok
    /\ FormatRecord(transactions[3], pads_year).ok
    /\ Len(out_file.lines) = 3

\* ------------------------------------------------------------------ properties of convert
\* The records of the rows that convert, in order.
RECURSIVE RecordsOf(_, _)
RecordsOf(conv, rows) ==
    IF Len(rows) = 0 THEN <<>>
    ELSE LET rest == RecordsOf(conv, SubSeq(rows, 1, Len(rows) - 1))
             last == convert_row_to_transaction(conv, rows[Len(rows)])
         IN IF last.ok THEN Append(rest, last.v) ELSE rest

\* The rows the loop has been through.
Processed == i - FirstRowNumber

FailedRows(conv, rows) ==
    {k \in 1..Len(rows) : ~convert_row_to_transaction(conv, rows[k]).ok}

SummaryLogged == \E k \in 1..Len(log) : log[k].msg = "Errors"

\* C1: convert_raw_csv_to_transaction returns the records of the rows whose
\* conversion succeeds, in input order, one per row; a failing row is dropped
\* and the rows after it are still converted.
C1_RecordsOfConvertingRowsInOrder ==
    /\ transactions = RecordsOf(self, SubSeq(file, 1, Processed))
    /\ Processed <= Len(file)
    /\ in_handle = "closed" => Processed = Len(file)

\* C1's case: three rows, the second failed, the first and third were kept.
C1_Witness ==
    /\ pc = "create_csv"
    /\ Len(file) = 3
    /\ FailedRows(self, file) = {2}
    /\ Len(transactions) = 2
    /\ transactions[1] # transactions[2]

\* C9: after each row the records appended plus the error counter equal the
\* rows processed, so the counter ends as the number of failing rows; the
\* summary is logged if and only if the counter is not zero, with the count,
\* and only once the last row has been processed.
C9_RowsAccountedOnce ==
    /\ Len(transactions) + error_count = Processed
    /\ error_count = Cardinality(FailedRows(self, SubSeq(file, 1, Processed)))
    /\ in_handle # "closed" => ~SummaryLogged
    /\ in_handle = "closed" =>
          /\ Processed = Len(file)
          /\ SummaryLogged <=> error_count > 0
          /\ \A k \in 1..Len(log) :
                 log[k].msg = "Errors" =>
                     /\ log[k].n = Cardinality(FailedRows(self, file))
                     /\ \A h \in 1..Len(log) :
                            log[h].msg = "Error converting record" => h < k

\* C9's case: two of three rows failed and the summary was logged.
C9_Witness ==
    /\ pc = "create_csv"
    /\ Len(file) = 3
    /\ error_count = 2
    /\ Len(transactions) = 1
    /\ SummaryLogged

\* C10: create_csv is entered only after the whole input was read and its
\* handle released; when the input cannot be opened convert aborts, create_csv
\* is never called and the output file is neither created nor truncated; when
\* the output cannot be opened that failure leaves convert; a row that fails
\* conversion causes neither abort.
C10_WriterAfterReadAndAborts ==
    /\ (pc \in {"create_csv", "writeheader", "writing", "done"}
        \/ out_handle # "unopened") =>
          (in_handle = "closed" /\ Processed = Len(file))
    /\ (pc = "aborted" /\ in_handle = "unopened") =>
          /\ raised = "OSError"
          /\ out_handle = "unopened"
          /\ out_file \in {NoFile, OldFile}
          /\ Processed = 0 /\ log = <<>>
    /\ (pc = "aborted" /\ in_handle # "unopened") =>
          /\ raised = "OSError"
          /\ in_handle = "closed"
          /\ out_handle = "unopened"
          /\ out_file \in {NoFile, OldFile}
    /\ pc # "aborted" => raised = "None"

\* C10's case: rows failed conversion, the read pass ended and released the
\* input, and then the output could not be opened.
C10_Witness ==
    /\ pc = "aborted"
    /\ in_handle = "closed"
    /\ error_count > 0
    /\ raised = "OSError"

====
